---- MODULE Spec2Model ----
(***************************************************************************)
(* Volume-Renderer: the application shell (main.py, VTKMainWindow) and the *)
(* rendering pipeline (VolumeRenderer.py, VolumeRenderer) as one state     *)
(* machine.  Every Qt event (button click, radio toggle, slider move,      *)
(* repaint, close) is one action; the signal emissions it causes run       *)
(* synchronously inside it, as Qt's direct connections do.                 *)
(*                                                                         *)
(* The handlers are written as operators from an application state s (a    *)
(* record) to the application state they leave, so that a signal emitted   *)
(* in the middle of a handler runs its slot in the middle of the handler.  *)
(***************************************************************************)
EXTENDS Integers, Sequences, FiniteSets, TLC

VARIABLES
    app,         \* the application state: window, widgets, pipeline, render window
    last_event,  \* the event whose handler ran last (history)
    folder_path  \* browse's local: the path its file dialog returned (unset outside browse)

vars == <<app, last_event, folder_path>>

------------------------------------------------------------------------------
(* Bounds of the model *)

\* VolumeRenderer objects constructed over a run (each adds a renderer to the
\* render window, which is never removed).
MaxRenderers == 2

\* Props a renderer may hold before a further import is left out of the model
\* (imports in RayCast mode add props without removing any).
MaxProps == 4

------------------------------------------------------------------------------
(* The environment: directories on disk and the series a reader finds there *)

\* A file name is a sequence of characters.
Name_a_dcm   == <<"a", ".", "d", "c", "m">>
Name_b_dcm   == <<"b", ".", "d", "c", "m">>
Name_I_DCM   == <<"I", ".", "D", "C", "M">>
Name_s_Dcm   == <<"s", ".", "D", "c", "m">>
Name_n_txt   == <<"n", ".", "t", "x", "t">>
Name_dcm     == <<"d", "c", "m">>
Name_dcm_bak == <<".", "d", "c", "m", "~">>

\* os.listdir of each directory the user can pick.
FileSystem ==
    [ head  |-> {Name_a_dcm, Name_b_dcm},
      knee  |-> {Name_I_DCM},
      chest |-> {Name_s_Dcm, Name_n_txt},
      pet   |-> {Name_a_dcm, Name_dcm},
      docs  |-> {Name_n_txt, Name_dcm, Name_dcm_bak} ]

Directories == DOMAIN FileSystem

\* QFileDialog.getExistingDirectory returns "" when the dialog is cancelled.
Cancelled == ""

\* A scalar (a Python float) is held as its floor and whether it has a
\* fractional part.
Whole(n) == [floor |-> n, frac |-> FALSE]
Fract(n) == [floor |-> n, frac |-> TRUE]

\* What the series reader and the library compute for each directory that
\* holds a series: the smoothed scalar range, and the centre and framing
\* distance of the visible bounds that ResetCamera works from.
Series ==
    [ head  |-> [range |-> <<Whole(0), Whole(255)>>, center |-> <<10, 10, 10>>, dist |-> 200],
      knee  |-> [range |-> <<Whole(2), Whole(6)>>,   center |-> <<4, 0, 6>>,   dist |-> 50],
      chest |-> [range |-> <<Whole(0), Whole(4)>>,   center |-> <<0, 8, 2>>,   dist |-> 80],
      pet   |-> [range |-> <<Fract(-2), Fract(3)>>,  center |-> <<1, 1, 1>>,   dist |-> 20] ]

\* Cameras the user can reach with the mouse (dolly and pan; the view
\* direction stays along -z, so that distances are integers).
UserCameras ==
    { [position |-> <<0, 0, 120>>, focal_point |-> <<0, 0, 0>>],
      [position |-> <<7, 3, 45>>,  focal_point |-> <<7, 3, 5>>] }

------------------------------------------------------------------------------
(* Sequencing *)

\* Body applied to the value of v, with v evaluated once: the statements of
\* a handler run one after the other, each on the state the previous left.
Then(v, Body(_)) == CHOOSE r \in {Body(x) : x \in {v}} : TRUE

------------------------------------------------------------------------------
(* The library's camera (vtkCamera), as the pipeline uses it *)

Abs(n) == IF n < 0 THEN -n ELSE n
Sgn(n) == IF n < 0 THEN -1 ELSE IF n > 0 THEN 1 ELSE 0

\* |b - a|.  Exact whenever b - a lies along an axis, which holds of every
\* camera a handler leaves behind (the view direction is never rotated).
Norm(a, b) == Abs(b[1] - a[1]) + Abs(b[2] - a[2]) + Abs(b[3] - a[3])

\* The unit vector from a to b, for b - a along an axis.
Direction(a, b) == <<Sgn(b[1] - a[1]), Sgn(b[2] - a[2]), Sgn(b[3] - a[3])>>

\* vtkCamera::SetPosition: stores the position and recomputes the distance.
SetPosition(cam, p) ==
    [cam EXCEPT !.position = p, !.distance = Norm(p, cam.focal_point)]

\* vtkCamera::SetFocalPoint: stores the focal point and recomputes the distance.
SetFocalPoint(cam, f) ==
    [cam EXCEPT !.focal_point = f, !.distance = Norm(cam.position, f)]

\* vtkCamera::SetDistance: nothing when the distance is already d; otherwise
\* the focal point moves along the direction of projection.
SetDistance(cam, d) ==
    IF cam.distance = d THEN cam
    ELSE LET dir == Direction(cam.position, cam.focal_point)
         IN  [cam EXCEPT !.distance = d,
                         !.focal_point = <<cam.position[1] + dir[1] * d,
                                           cam.position[2] + dir[2] * d,
                                           cam.position[3] + dir[3] * d>>]

\* The three values update_visualization saves and restores.
CameraState(cam) == <<cam.position, cam.focal_point, cam.distance>>

------------------------------------------------------------------------------
(* VolumeRenderer *)

\* self.renderer's props, in the render window's renderer collection.
Props(s) == s.render_window.renderers[s.volume_renderer.renderer]

SetProps(s, ps) ==
    [s EXCEPT !.render_window.renderers[s.volume_renderer.renderer] = ps]

\* renderer.AddActor / AddVolume / AddViewProp.
AddProp(s, p) ==
    [s EXCEPT !.render_window.renderers[s.volume_renderer.renderer] = Append(@, p)]

\* vtkRenderer::ResetCamera: the focal point goes to the centre of the visible
\* bounds and the position back along the view-plane normal (+z here) by the
\* distance that frames them.
ResetCamera(s) ==
    LET b == Series[s.volume_renderer.volume]
    IN  [s EXCEPT !.volume_renderer.camera =
            SetPosition(SetFocalPoint(@, b.center),
                        <<b.center[1], b.center[2], b.center[3] + b.dist>>)]

\* add_reference_axes: one more prop, the cube axes.
add_reference_axes(s) == AddProp(s, "axes")

\* ray_casting_rendering: adds the volume actor, reframes the camera, adds
\* the axes.  It does not touch visualize_flag.
ray_casting_rendering(s) ==
    Then(AddProp(s, "volume"), LAMBDA s1 :
    Then(ResetCamera(s1), LAMBDA s2 :
    add_reference_axes(s2)))

\* surface_rendering: adds the contour actor, reframes the camera, adds the
\* axes and sets visualize_flag.  iso_value shapes the contour's geometry,
\* which is the library's and is not part of the state here.
surface_rendering(s, iso_value) ==
    Then(AddProp(s, "contour"), LAMBDA s1 :
    Then(ResetCamera(s1), LAMBDA s2 :
    Then(add_reference_axes(s2), LAMBDA s3 :
    [s3 EXCEPT !.volume_renderer.visualize_flag = 1])))

\* The dispatch on rendering_mode that update_visualization and browse make.
RenderInMode(s) ==
    IF s.rendering_mode = 0
      THEN surface_rendering(s, s.volume_renderer.iso_value)
    ELSE IF s.rendering_mode = 1
      THEN ray_casting_rendering(s)
    ELSE s

\* update_visualization without the three calls that put the camera back.
update_visualization_no_restore(s) ==
    Then([s EXCEPT !.calls = @ + 1], LAMBDA s0 :
    IF s0.volume_renderer.volume = "None" THEN s0
    ELSE Then(SetProps(s0, <<>>), LAMBDA s1 :
         RenderInMode(s1)))

\* update_visualization: with a volume, saves the camera, removes every prop,
\* renders in the current mode, restores the camera.  calls counts the
\* invocations made during the current event.
update_visualization(s) ==
    Then([s EXCEPT !.calls = @ + 1], LAMBDA s0 :
    IF s0.volume_renderer.volume = "None" THEN s0
    ELSE LET current_position    == s0.volume_renderer.camera.position
             current_focal_point == s0.volume_renderer.camera.focal_point
             current_zoom        == s0.volume_renderer.camera.distance
         IN  Then(SetProps(s0, <<>>), LAMBDA s1 :
             Then(RenderInMode(s1), LAMBDA s2 :
             [s2 EXCEPT !.volume_renderer.camera =
                 SetDistance(
                     SetFocalPoint(SetPosition(@, current_position),
                                   current_focal_point),
                     current_zoom)])))

\* handle_iso_value: the slot of IsoValueSlider.valueChanged.
handle_iso_value(s) ==
    update_visualization(
        [s EXCEPT !.volume_renderer.iso_value = s.IsoValueSlider.value,
                  !.IsoValue = s.IsoValueSlider.value])

------------------------------------------------------------------------------
(* QSlider (QAbstractSlider), as the handlers use it *)

Min(a, b) == IF a < b THEN a ELSE b
Max(a, b) == IF a > b THEN a ELSE b

\* QAbstractSlider::setValue: the value is bounded to the range; valueChanged
\* is emitted, and its slot runs, only when the bounded value differs from
\* the current one.  The slot is that of the current VolumeRenderer: a
\* replaced one is unreferenced, and its connection goes with it.
setValue(s, value) ==
    LET v == Max(s.IsoValueSlider.minimum, Min(s.IsoValueSlider.maximum, value))
    IN  IF s.IsoValueSlider.value = v THEN s
        ELSE handle_iso_value([s EXCEPT !.IsoValueSlider.value = v])

\* QAbstractSlider::setRange: stores the range, then bounds the value again.
setRange(s, lo, hi) ==
    setValue([s EXCEPT !.IsoValueSlider.minimum = lo,
                       !.IsoValueSlider.maximum = Max(lo, hi)],
             s.IsoValueSlider.value)

setMaximum(s, hi) == setRange(s, Min(s.IsoValueSlider.minimum, hi), hi)
setMinimum(s, lo) == setRange(s, lo, Max(s.IsoValueSlider.maximum, lo))

------------------------------------------------------------------------------
(* VolumeRenderer: the intensity range and the slider set-up *)

\* Python's int() of a float: truncation toward zero.
int(x) == IF x.frac /\ x.floor < 0 THEN x.floor + 1 ELSE x.floor

\* list(range(a, b)).
range(a, b) == [i \in 1..Max(b - a, 0) |-> a + i - 1]

\* set_iso_sliders taking the element at index (len - 1) // 2.
set_iso_sliders_low_middle(s) ==
    LET iv == s.volume_renderer.intensity_values
    IN  Then(setMaximum(s, iv[Len(iv)]), LAMBDA s1 :
        Then(setMinimum(s1, iv[1]), LAMBDA s2 :
        setValue(s2, iv[((Len(iv) - 1) \div 2) + 1])))

\* set_iso_sliders: maximum, minimum, then the value at index len // 2
\* (Python indexes from 0, sequences here from 1).
set_iso_sliders(s) ==
    LET iv == s.volume_renderer.intensity_values
    IN  Then(setMaximum(s, iv[Len(iv)]), LAMBDA s1 :
        Then(setMinimum(s1, iv[1]), LAMBDA s2 :
        setValue(s2, iv[(Len(iv) \div 2) + 1])))

\* compute_intensity_values: the integers of the smoothed scalar range, both
\* ends included, then the slider set-up.
compute_intensity_values(s) ==
    LET scalar_range == Series[s.volume_renderer.volume].range
    IN  Then([s EXCEPT !.volume_renderer.intensity_values =
                           range(int(scalar_range[1]), int(scalar_range[2]) + 1)],
             LAMBDA s1 : set_iso_sliders(s1))

\* VolumeRenderer.__init__: a pipeline with no volume, iso value 0, no
\* intensity values, the flag down, a new renderer added to the widget's
\* render window (beside the ones already there) and its camera at
\* (0, 0, 300) looking at the origin.
VolumeRenderer__init__(s) ==
    [s EXCEPT
       !.render_window.renderers = Append(@, <<>>),
       !.volume_renderer =
           [volume           |-> "None",
            iso_value        |-> 0,
            intensity_values |-> <<>>,
            visualize_flag   |-> 0,
            renderer         |-> Len(s.render_window.renderers) + 1,
            camera           |-> SetFocalPoint(
                                     SetPosition([position |-> <<0, 0, 1>>,
                                                  focal_point |-> <<0, 0, 0>>,
                                                  distance |-> 1],
                                                 <<0, 0, 300>>),
                                     <<0, 0, 0>>)]]

------------------------------------------------------------------------------
(* VTKMainWindow *)

\* str.lower on one character.
lower(ch) ==
    CASE ch = "D" -> "d"
      [] ch = "C" -> "c"
      [] ch = "M" -> "m"
      [] ch = "I" -> "i"
      [] OTHER    -> ch

\* str.endswith.
endswith(str, suffix) ==
    /\ Len(str) >= Len(suffix)
    /\ \A i \in 1..Len(suffix) : str[Len(str) - Len(suffix) + i] = suffix[i]

DotDcm == <<".", "d", "c", "m">>

\* show_error_message: one modal dialog; errors counts the dialogs shown
\* during the current event.
show_error_message(s) == [s EXCEPT !.errors = @ + 1]

\* has_dicom_files: for a set path, whether the listing holds a name ending
\* in .dcm in any case, and nothing else; for an unset path, the error
\* dialog and False.  ret is the value returned, s the state left.
has_dicom_files(s, directory) ==
    IF directory # Cancelled
      THEN LET dicom_files ==
                   {file \in FileSystem[directory] :
                        endswith([i \in 1..Len(file) |-> lower(file[i])], DotDcm)}
           IN  [ret |-> dicom_files # {}, s |-> s]
      ELSE [ret |-> FALSE, s |-> show_error_message(s)]

\* clear_output that resets the slider and keeps the pipeline.
clear_output_keeps_pipeline(s) == setValue(s, 0)

\* clear_output: a new VolumeRenderer replaces the current one, the slider is
\* set to 0 (its slot is the new pipeline's), the window is rendered.
clear_output(s) ==
    Then(VolumeRenderer__init__(s), LAMBDA s1 : setValue(s1, 0))

\* What browse does once the path is validated: clears an existing
\* visualization, takes the reader of that directory as the volume, computes
\* the intensity values and renders in the current mode.
LoadAndRender(s, path) ==
    Then(IF s.volume_renderer.visualize_flag # 0 THEN clear_output(s) ELSE s,
         LAMBDA s1 :
    Then(compute_intensity_values([s1 EXCEPT !.volume_renderer.volume = path]),
         LAMBDA s3 :
    RenderInMode(s3)))

\* browse that clears the existing visualization before it validates the path.
browse_clears_first(s, path) ==
    Then(IF s.volume_renderer.visualize_flag # 0 THEN clear_output(s) ELSE s,
         LAMBDA s0 :
    Then(has_dicom_files(s0, path), LAMBDA checked :
    IF ~checked.ret THEN checked.s ELSE LoadAndRender(checked.s, path)))

\* browse, given the path the file dialog returned.
browse(s, path) ==
    Then(has_dicom_files(s, path), LAMBDA checked :
    IF ~checked.ret THEN checked.s ELSE LoadAndRender(checked.s, path))

\* handle_radio_button_toggled: the slot of both buttons' toggled signal.
handle_radio_button_toggled(s) ==
    update_visualization(
        IF s.checked.SurfaceButton
          THEN [s EXCEPT !.rendering_mode = 0, !.IsoValueSlider.enabled = TRUE]
        ELSE IF s.checked.RayCastButton
          THEN [s EXCEPT !.rendering_mode = 1, !.IsoValueSlider.enabled = FALSE]
        ELSE s)

OtherButton(b) == IF b = "SurfaceButton" THEN "RayCastButton" ELSE "SurfaceButton"

\* QAbstractButton::setChecked on one of the two auto-exclusive radio
\* buttons: nothing when the state is already that, and the checked button
\* of the group cannot be unchecked; otherwise the button is checked, the
\* button checked until now is unchecked and emits toggled, and then the
\* button itself emits toggled.  Both signals are connected to
\* handle_radio_button_toggled.
setChecked(s, b, on) ==
    IF s.checked[b] = on THEN s
    ELSE IF ~on THEN s
    ELSE Then([s EXCEPT !.checked[b] = TRUE], LAMBDA s1 :
         Then(IF s1.checked[OtherButton(b)]
                THEN handle_radio_button_toggled(
                         [s1 EXCEPT !.checked[OtherButton(b)] = FALSE])
              ELSE s1,
              LAMBDA s2 : handle_radio_button_toggled(s2)))

\* closeEvent with the interactor detached before the window is finalized.
closeEvent_detach_first(s) ==
    [s EXCEPT !.teardown = @ \o <<"SetInteractor(None)", "Finalize", "accept">>,
              !.render_window.finalized = @ + 1,
              !.render_window.interactor = FALSE,
              !.accepted = TRUE]

\* closeEvent: the render window is finalized, its interactor is set to
\* None, the event is accepted.
closeEvent(s) ==
    [s EXCEPT !.teardown = @ \o <<"Finalize", "SetInteractor(None)", "accept">>,
              !.render_window.finalized = @ + 1,
              !.render_window.interactor = FALSE,
              !.accepted = TRUE]

\* The widgets as the form declares them (slider 0 in 0..99, no radio button
\* checked), rendering_mode None (-1 here), no pipeline yet.
RawWindow ==
    [rendering_mode  |-> -1,
     checked         |-> [SurfaceButton |-> FALSE, RayCastButton |-> FALSE],
     IsoValueSlider  |-> [minimum |-> 0, maximum |-> 99, value |-> 0,
                          enabled |-> TRUE],
     IsoValue        |-> 0,
     volume_renderer |-> [volume |-> "None"],
     render_window   |-> [renderers |-> <<>>, finalized |-> 0, interactor |-> TRUE],
     calls           |-> 0,
     errors          |-> 0,
     teardown        |-> <<>>,
     accepted        |-> FALSE]

\* VTKMainWindow.__init__: the first VolumeRenderer, the label, the signal
\* connections and SurfaceButton.setChecked(True).
VTKMainWindow__init__ ==
    Then(VolumeRenderer__init__(RawWindow), LAMBDA s1 :
    Then([s1 EXCEPT !.IsoValue = s1.volume_renderer.iso_value], LAMBDA s2 :
    setChecked(s2, "SurfaceButton", TRUE)))

------------------------------------------------------------------------------
(* The state machine: one action per Qt event *)

\* A new event: the per-event counters start from 0.
Begin(s) == [s EXCEPT !.calls = 0, !.errors = 0]

Init ==
    /\ app = VTKMainWindow__init__
    /\ last_event = "init"
    /\ folder_path = Cancelled

\* Import_button.clicked, the file dialog returning path.
Import(path) ==
    /\ ~app.accepted
    /\ LET t == browse(Begin(app), path)
       IN  /\ Len(t.render_window.renderers) <= MaxRenderers
           /\ Len(Props(t)) <= MaxProps
           /\ app' = t
    /\ last_event' = "browse"
    /\ folder_path' = path

\* clear_button.clicked.
Clear ==
    /\ ~app.accepted
    /\ Len(app.render_window.renderers) < MaxRenderers
    /\ app' = clear_output(Begin(app))
    /\ last_event' = "clear"
    /\ folder_path' = Cancelled

\* A click on radio button b.
ClickRadio(b) ==
    /\ ~app.accepted
    /\ app' = setChecked(Begin(app), b, ~app.checked[b])
    /\ last_event' = IF app.checked[b] THEN "reselect" ELSE "toggle"
    /\ folder_path' = Cancelled

\* The positions the user drags the slider to.
SliderPicks(sl) == {sl.minimum, sl.minimum + 1, sl.maximum}

\* The user moves the enabled slider to another value.
Slide(v) ==
    /\ ~app.accepted
    /\ app.IsoValueSlider.enabled
    /\ v >= app.IsoValueSlider.minimum
    /\ v <= app.IsoValueSlider.maximum
    /\ v # app.IsoValueSlider.value
    /\ app' = setValue(Begin(app), v)
    /\ last_event' = "slide"
    /\ folder_path' = Cancelled

\* The user moves the camera with the mouse (the interactor style sets the
\* position and the focal point of the active camera).
MoveCamera(c) ==
    /\ ~app.accepted
    /\ app' = [Begin(app) EXCEPT !.volume_renderer.camera =
                  SetFocalPoint(SetPosition(@, c.position), c.focal_point)]
    /\ last_event' = "camera"
    /\ folder_path' = Cancelled

\* A repaint: render_window.Render() draws the renderers and changes nothing.
Expose ==
    /\ ~app.accepted
    /\ app' = Begin(app)
    /\ last_event' = "render"
    /\ folder_path' = Cancelled

\* The window is closed.
Close ==
    /\ ~app.accepted
    /\ app' = closeEvent(Begin(app))
    /\ last_event' = "close"
    /\ folder_path' = Cancelled

\* The user drags the slider somewhere.
Drag == \E v \in SliderPicks(app.IsoValueSlider) : Slide(v)

Next ==
    \/ \E path \in Directories \cup {Cancelled} : Import(path)
    \/ Clear
    \/ \E b \in {"SurfaceButton", "RayCastButton"} : ClickRadio(b)
    \/ Drag
    \/ \E c \in UserCameras : MoveCamera(c)
    \/ Expose
    \/ Close

Spec == Init /\ [][Next]_vars

------------------------------------------------------------------------------
(* Vocabulary of the properties *)

\* The scene the window shows: the renderer drawn last erases the viewport
\* before it draws, so what is seen is the newest renderer's props.
ShownProps(s) == s.render_window.renderers[Len(s.render_window.renderers)]

\* The data actors among some props (the reference axes left out).
DataActors(ps) == SelectSeq(ps, LAMBDA p : p # "axes")

ModeActor(s) == IF s.rendering_mode = 0 THEN "contour" ELSE "volume"

\* Whether the last browse passed has_dicom_files.
Validated == has_dicom_files(app, folder_path).ret

\* The last event was a browse that went on to load a series.
Imported == last_event = "browse" /\ Validated

\* What a failed import must leave alone.
ProgramState(s) ==
    <<s.volume_renderer, s.render_window, s.IsoValueSlider, s.IsoValue,
      s.rendering_mode, s.checked>>

Pipeline == app.volume_renderer

------------------------------------------------------------------------------
(* C1 *)

\* C1: after clear_output the shown scene holds no actor, and while the
\* pipeline has no volume (from a clear until the next successful import) it
\* stays empty through renders, slider changes and mode toggles.
C1_ClearedSceneStaysEmpty ==
    /\ last_event = "clear" => Pipeline.volume = "None"
    /\ Pipeline.volume = "None" => ShownProps(app) = <<>>

\* A clear discarded a pipeline that showed actors, and a mode toggle
\* followed it.
C1_Witness ==
    /\ last_event = "toggle"
    /\ Pipeline.volume = "None"
    /\ Len(app.render_window.renderers) = 2
    /\ app.render_window.renderers[1] # <<>>

------------------------------------------------------------------------------
(* C2 *)

\* C2 (as claimed): whenever a volume is loaded the scene holds exactly one
\* data actor, the one of the current mode.
C2_OneDataActor ==
    Pipeline.volume # "None" => DataActors(Props(app)) = <<ModeActor(app)>>

------------------------------------------------------------------------------
(* C3 *)

\* C3 (as claimed): a switch of rendering mode calls update_visualization
\* exactly once.
C3_OneRebuildPerSwitch == last_event = "toggle" => app.calls = 1

------------------------------------------------------------------------------
(* C4 *)

\* C4: update_visualization run in any state the window can be in leaves
\* the camera's position, focal point and distance as they were, and so
\* does every event whose handler rebuilds (a mode switch, an iso-value
\* change); with no volume loaded such an event leaves the pipeline (but for
\* the iso value the slider callback stores) and the render window as they
\* were.
C4_RebuildKeepsCamera ==
    [][ /\ CameraState(update_visualization(app).volume_renderer.camera)
             = CameraState(app.volume_renderer.camera)
        /\ last_event' \in {"toggle", "slide"} =>
          /\ app'.calls >= 1
          /\ CameraState(app'.volume_renderer.camera)
               = CameraState(app.volume_renderer.camera)
          /\ app.volume_renderer.volume = "None" =>
               /\ app'.render_window = app.render_window
               /\ [app'.volume_renderer EXCEPT !.iso_value = app.volume_renderer.iso_value]
                    = app.volume_renderer ]_vars

\* A mode switch rebuilt the scene of a loaded volume while the camera was
\* where the user had put it, not where ResetCamera puts it.
C4_Witness ==
    /\ last_event = "toggle"
    /\ Pipeline.volume # "None"
    /\ Props(app) # <<>>
    /\ \E c \in UserCameras : /\ Pipeline.camera.position = c.position
                              /\ Pipeline.camera.focal_point = c.focal_point

------------------------------------------------------------------------------
(* C5 *)

\* C5 (as claimed): a browse whose directory fails validation shows one
\* error dialog, and one whose directory passes shows none.
C5_InvalidDirectoryShowsError ==
    last_event = "browse" => app.errors = (IF Validated THEN 0 ELSE 1)

------------------------------------------------------------------------------
(* C6 *)

\* C6: a browse whose directory fails validation leaves the pipeline, the
\* render window, the slider, the label, the mode and the buttons as they
\* were.
C6_FailedImportChangesNothing ==
    [][ (last_event' = "browse" /\ ~has_dicom_files(app, folder_path').ret) =>
          ProgramState(app') = ProgramState(app) ]_vars

\* An import of a directory without series files was attempted while a
\* volume was shown.
C6_Witness ==
    /\ last_event = "browse"
    /\ folder_path = "docs"
    /\ Pipeline.volume # "None"
    /\ Pipeline.visualize_flag = 1

------------------------------------------------------------------------------
(* C7 *)

Contiguous(iv) == \A i \in 1..(Len(iv) - 1) : iv[i + 1] = iv[i] + 1

\* The intensity range and the slider's range after an import, as claimed
\* and as found.
C7_RangeAndSlider ==
    LET iv == Pipeline.intensity_values
        r  == Series[folder_path].range
    IN  /\ Len(iv) >= 1
        /\ Contiguous(iv)
        /\ iv[1] = int(r[1])
        /\ iv[Len(iv)] = int(r[2])
        /\ app.IsoValueSlider.minimum = iv[1]
        /\ app.IsoValueSlider.maximum = iv[Len(iv)]

------------------------------------------------------------------------------
(* C8 *)

\* The place of a step in the teardown, 0 when it did not happen.
Place(step) ==
    IF \E i \in 1..Len(app.teardown) : app.teardown[i] = step
      THEN CHOOSE i \in 1..Len(app.teardown) : app.teardown[i] = step
      ELSE 0

\* C8 (amended): on shutdown the render window is finalized exactly once,
\* then its interactor is detached, then the close event is accepted.
C8_TeardownOrder ==
    app.accepted =>
        /\ app.render_window.finalized = 1
        /\ ~app.render_window.interactor
        /\ Place("Finalize") >= 1
        /\ Place("Finalize") < Place("SetInteractor(None)")
        /\ Place("SetInteractor(None)") < Place("accept")

\* C8 (as claimed): the interactor is detached before the render window is
\* finalized, which happens exactly once before the event is accepted.
C8_AsClaimed ==
    app.accepted =>
        /\ app.render_window.finalized = 1
        /\ Place("SetInteractor(None)") >= 1
        /\ Place("SetInteractor(None)") < Place("Finalize")
        /\ Place("Finalize") < Place("accept")

\* The window was closed while a volume was shown.
C8_Witness ==
    /\ app.accepted
    /\ last_event = "close"
    /\ Pipeline.volume # "None"

------------------------------------------------------------------------------
(* C9 *)

\* C9 (as claimed): visualize_flag is set exactly when the scene holds an
\* actor.
C9_FlagIffActors == (Pipeline.visualize_flag # 0) <=> (Props(app) # <<>>)

------------------------------------------------------------------------------
(* C10 *)

\* C10 (as claimed): after a successful import the pipeline's iso_value is
\* the middle element of the new intensity range.
C10_IsoValueIsMidpoint ==
    Imported =>
        LET iv == Pipeline.intensity_values
        IN  Pipeline.iso_value = iv[(Len(iv) \div 2) + 1]

====
